---- MODULE Spec2Model ----
(***************************************************************************)
(* Smart-Recipe-Finder (src/src/App.jsx): the search core of the App       *)
(* component.  The model covers the module-level result cache, the pure    *)
(* helpers (levenshtein, scoreMatch, intersectById), the candidate pool    *)
(* (buildSourceList), the mount effects that load the dropdowns and the    *)
(* trending list, and handleSearch with its network calls in flight and    *)
(* its delayed did-you-mean message.                                       *)
(*                                                                         *)
(* A JavaScript string is a sequence of one-character strings, so that     *)
(* trim, toLowerCase, split, includes and the edit distance are computed   *)
(* character by character as the code computes them.                       *)
(***************************************************************************)
EXTENDS Integers, Sequences, FiniteSets, Bags, TLC

\* ------------------------------------------------------------ bounds ----
\* Number of handleSearch invocations in one run of the model.
MaxSearches == 2

\* ----------------------------------------------------------- strings ----
\* The texts of the model.  The state holds a text by its spelling; Chars
\* gives its characters, on which the string operations below work, and
\* Text finds the spelling of a sequence of characters.
Chars ==
    "" :> << >> @@
    "chicken" :> <<"c", "h", "i", "c", "k", "e", "n">> @@
    "Chicken" :> <<"C", "h", "i", "c", "k", "e", "n">> @@
    "chiken" :> <<"c", "h", "i", "k", "e", "n">> @@
    "chiken " :> <<"c", "h", "i", "k", "e", "n", " ">> @@
    "garlic" :> <<"g", "a", "r", "l", "i", "c">> @@
    "chicken, garlic" :> <<"c", "h", "i", "c", "k", "e", "n", ",", " ", "g", "a", "r", "l", "i", "c">> @@
    "Chicken,chicken" :> <<"C", "h", "i", "c", "k", "e", "n", ",", "c", "h", "i", "c", "k", "e", "n">> @@
    "chicken curry" :> <<"c", "h", "i", "c", "k", "e", "n", " ", "c", "u", "r", "r", "y">> @@
    "rice" :> <<"r", "i", "c", "e">> @@
    "Indian" :> <<"I", "n", "d", "i", "a", "n">> @@
    "biryani" :> <<"b", "i", "r", "y", "a", "n", "i">> @@
    "pasta" :> <<"p", "a", "s", "t", "a">> @@
    "pizza" :> <<"p", "i", "z", "z", "a">> @@
    "curry" :> <<"c", "u", "r", "r", "y">> @@
    "salad" :> <<"s", "a", "l", "a", "d">> @@
    "fried rice" :> <<"f", "r", "i", "e", "d", " ", "r", "i", "c", "e">>

Texts == DOMAIN Chars

Text(cs) == CHOOSE n \in Texts : Chars[n] = cs

\* String.prototype.toLowerCase, one character (the upper-case letters the
\* model's strings use are C and I).
LowerChar(c) == CASE c = "C" -> "c" [] c = "I" -> "i" [] OTHER -> c

RECURSIVE ToLowerCase(_)
ToLowerCase(s) ==
    IF s = << >> THEN << >> ELSE <<LowerChar(Head(s))>> \o ToLowerCase(Tail(s))

\* String.prototype.trim: white space is the blank.
RECURSIVE TrimLeft(_)
TrimLeft(s) == IF s # << >> /\ Head(s) = " " THEN TrimLeft(Tail(s)) ELSE s

RECURSIVE TrimRight(_)
TrimRight(s) ==
    IF s # << >> /\ s[Len(s)] = " " THEN TrimRight(SubSeq(s, 1, Len(s) - 1)) ELSE s

Trim(s) == TrimRight(TrimLeft(s))

\* String.prototype.split(","): the pieces between commas, empty pieces kept.
RECURSIVE SplitFrom(_, _, _)
SplitFrom(s, i, cur) ==
    IF i > Len(s) THEN <<cur>>
    ELSE IF s[i] = "," THEN <<cur>> \o SplitFrom(s, i + 1, << >>)
    ELSE SplitFrom(s, i + 1, Append(cur, s[i]))

Split(s) == SplitFrom(s, 1, << >>)

\* String.prototype.includes.
Includes(hay, needle) ==
    \E i \in 1..(Len(hay) - Len(needle) + 1) :
        SubSeq(hay, i, i + Len(needle) - 1) = needle

Range(xs) == {xs[i] : i \in 1..Len(xs)}

\* The sequences of at most n elements of S.
SeqsUpTo(S, n) == UNION {[1..k -> S] : k \in 0..n}

Min2(a, b) == IF a <= b THEN a ELSE b

\* ------------------------------------------------------ fuzzy helpers ----
\* One row of the dynamic-programming matrix of levenshtein: row i from row
\* i-1 (a row is indexed 1..Len(bs)+1 for the columns 0..Len(bs)).  TLC passes
\* operator arguments unevaluated; the tests on Len(next) evaluate each cell
\* and each row as it is built, and are always true.
RECURSIVE LevRow(_, _, _, _, _)
LevRow(prev, ai, bs, j, row) ==
    IF j > Len(bs) THEN row
    ELSE LET cost == IF ai = bs[j] THEN 0 ELSE 1
             v == Min2(Min2(prev[j + 1] + 1, row[j] + 1), prev[j] + cost)
             next == Append(row, v)
         IN  IF Len(next) = j + 1 THEN LevRow(prev, ai, bs, j + 1, next) ELSE next

RECURSIVE LevRows(_, _, _, _)
LevRows(as, bs, i, prev) ==
    IF i > Len(as) THEN prev
    ELSE LET next == LevRow(prev, as[i], bs, 1, <<i>>)
         IN  IF Len(next) = Len(prev) THEN LevRows(as, bs, i + 1, next) ELSE next

\* Row 0 of the matrix: matrix[0][j] = j.
RECURSIVE LevRow0(_)
LevRow0(n) == IF n = 0 THEN <<0>> ELSE Append(LevRow0(n - 1), n)

levenshtein(a, b) ==
    IF a = << >> THEN Len(b)
    ELSE IF b = << >> THEN Len(a)
    ELSE LET la == ToLowerCase(a)
             lb == ToLowerCase(b)
         IN  LevRows(la, lb, 1, LevRow0(Len(lb)))[Len(lb) + 1]

\* A score is Infinity or the fraction num/den (den >= 1).
Infinity == [inf |-> TRUE, num |-> 0, den |-> 1]
Frac(n, d) == [inf |-> FALSE, num |-> n, den |-> d]

\* The edit-distance ratio alone, without the test of containment (the
\* mutant of C15).
RatioOnly(query, target) ==
    LET q0 == ToLowerCase(Trim(query))
        t0 == ToLowerCase(Trim(target))
    IN  IF q0 = << >> \/ t0 = << >> THEN Infinity
        ELSE Frac(levenshtein(q0, t0), IF Len(t0) > 1 THEN Len(t0) ELSE 1)

scoreMatch(query, target) ==
    LET q0 == ToLowerCase(Trim(query))
        t0 == ToLowerCase(Trim(target))
    IN  IF q0 = << >> \/ t0 = << >> THEN Infinity
        ELSE IF Includes(t0, q0) THEN Frac(0, 1)
        ELSE Frac(levenshtein(q0, t0), IF Len(t0) > 1 THEN Len(t0) ELSE 1)

\* The texts the user types into the ingredient box.
Queries ==
    {"", "Chicken", "chiken", "chiken ", "curry", "chicken, garlic", "Chicken,chicken"}

\* scoreMatch of every query against every text, computed once.
ScoreTable == [q \in Queries, t \in Texts |-> scoreMatch(Chars[q], Chars[t])]

\* a.score - b.score < 0, the only case in which sort moves b behind a.
\* Infinity - Infinity is NaN, which sort reads as 0.
ScoreLess(a, b) ==
    IF a.inf THEN FALSE
    ELSE IF b.inf THEN TRUE
    ELSE a.num * b.den < b.num * a.den

\* best.score < 0.4
BelowThreshold(sc) == ~sc.inf /\ 5 * sc.num < 2 * sc.den

\* Array.prototype.sort((a, b) => a.score - b.score): stable.
RECURSIVE InsertByScore(_, _)
InsertByScore(sorted, x) ==
    IF sorted = << >> THEN <<x>>
    ELSE IF ScoreLess(x.score, Head(sorted).score) THEN <<x>> \o sorted
    ELSE <<Head(sorted)>> \o InsertByScore(Tail(sorted), x)

RECURSIVE SortByScore(_)
SortByScore(xs) ==
    IF xs = << >> THEN << >>
    ELSE InsertByScore(SortByScore(SubSeq(xs, 1, Len(xs) - 1)), xs[Len(xs)])

\* ------------------------------------------------------- the catalog ----
\* What the remote API answers.  The catalog is static: the same request
\* gets the same body whenever it succeeds.
Meal(id, name) == [idMeal |-> id, strMeal |-> name]
m1 == Meal(1, "chicken curry")
m2 == Meal(2, "chicken")
m3 == Meal(3, "rice")
m4 == Meal(4, "garlic")

\* The JSON envelope { meals: [...] | null }.
Envelope(ms) == [null |-> FALSE, meals |-> ms]
NullEnvelope == [null |-> TRUE, meals |-> << >>]

\* filter.php?i= / ?c= / ?a=
ApiFilter(kind, key) ==
    CASE kind = "ingredient" /\ key = "chicken" -> Envelope(<<m1, m2, m3>>)
      [] kind = "ingredient" /\ key = "garlic" -> Envelope(<<m2, m3, m4>>)
      [] kind = "category" /\ key = "Chicken" -> Envelope(<<m1, m2>>)
      [] kind = "area" /\ key = "Indian" -> Envelope(<<m3, m1, m3>>)
      [] OTHER -> NullEnvelope

\* list.php?c=list and list.php?a=list, already mapped to the names.
ApiCategories == <<"Chicken">>
ApiAreas == <<"Indian">>

\* Number of random.php calls of the mount effect.
RandomCalls == 8

\* The bodies the RandomCalls calls of one trending load may bring back.
RandomPacks ==
    { [i \in 1..RandomCalls |->
          IF i = RandomCalls THEN NullEnvelope
          ELSE Envelope(<<(<<m1, m2, m3>>)[((i - 1) % 3) + 1]>>)] }

\* data?.meals || []
MealsOf(data) == IF data.null THEN << >> ELSE data.meals

\* --------------------------------------------------------- the cache ----
\* A Map: entries in insertion order; set on a present key replaces the value
\* in place.
MapHas(store, key) == \E i \in 1..Len(store) : store[i].key = key

MapGet(store, key) == store[CHOOSE i \in 1..Len(store) : store[i].key = key].meals

MapSet(store, key, meals) ==
    IF MapHas(store, key)
    THEN [i \in 1..Len(store) |->
            IF store[i].key = key THEN [key |-> key, meals |-> meals] ELSE store[i]]
    ELSE Append(store, [key |-> key, meals |-> meals])

MapKeys(store) == [i \in 1..Len(store) |-> store[i].key]

EmptyCache == [ingredient |-> << >>, category |-> << >>, area |-> << >>]

\* ------------------------------------------------------ intersection ----
IdSet(ms) == {ms[i].idMeal : i \in 1..Len(ms)}

\* acc.filter((m) => set.has(m.idMeal))
FilterByIds(acc, ids) == SelectSeq(acc, LAMBDA m : m.idMeal \in ids)

RECURSIVE ReduceIntersect(_, _)
ReduceIntersect(acc, rest) ==
    IF rest = << >> THEN acc
    ELSE ReduceIntersect(FilterByIds(acc, IdSet(Head(rest))), Tail(rest))

\* A reduce that never looks past the first list (the mutant of C9).
FirstListOnly(arrays) ==
    IF arrays = << >> THEN << >> ELSE Head(arrays)

intersectById(arrays) ==
    IF arrays = << >> THEN << >> ELSE ReduceIntersect(Head(arrays), Tail(arrays))

\* const map = new Map(); merged.forEach((m) => map.set(m.idMeal, m));
\* Array.from(map.values())
RECURSIVE DedupeInto(_, _)
DedupeInto(vals, ms) ==
    IF ms = << >> THEN vals
    ELSE LET m == Head(ms)
             next == IF m.idMeal \in IdSet(vals)
                     THEN [i \in 1..Len(vals) |->
                             IF vals[i].idMeal = m.idMeal THEN m ELSE vals[i]]
                     ELSE Append(vals, m)
         IN  DedupeInto(next, Tail(ms))

DedupeById(ms) == DedupeInto(<< >>, ms)

\* packs.flatMap((p) => p.meals || [])
RECURSIVE FlatMeals(_)
FlatMeals(packs) ==
    IF packs = << >> THEN << >> ELSE MealsOf(Head(packs)) \o FlatMeals(Tail(packs))

\* ---------------------------------------------------- candidate pool ----
Fallbacks == <<"biryani", "pasta", "pizza", "curry", "salad", "fried rice">>

\* Set.add of each element in turn: insertion order, no duplicates.
RECURSIVE AddAll(_, _)
AddAll(names, xs) ==
    IF xs = << >> THEN names
    ELSE AddAll(IF Head(xs) \in Range(names) THEN names ELSE Append(names, Head(xs)),
                Tail(xs))

buildSourceList(trend, cats, ars, ingredientStore) ==
    AddAll(AddAll(AddAll(AddAll(AddAll(<< >>,
        [i \in 1..Len(trend) |-> trend[i].strMeal]), cats), ars),
        MapKeys(ingredientStore)), Fallbacks)

\* src.map((s) => ({ s, score: scoreMatch(queryTerm, s) })).sort(...)[0]
Scored(queryTerm, src) ==
    SortByScore([i \in 1..Len(src) |-> [s |-> src[i], score |-> ScoreTable[queryTerm, src[i]]]])

\* The test of handleSearch without its comparison of best.s with the
\* query (the mutant of C6).
SuggestionShownUnlessFar(queryTerm, scored) ==
    scored # << >> /\ BelowThreshold(scored[1].score)

\* best && best.score < 0.4 && best.s.toLowerCase() !== queryTerm.toLowerCase()
SuggestionShown(queryTerm, scored) ==
    /\ scored # << >>
    /\ BelowThreshold(scored[1].score)
    /\ ToLowerCase(Chars[scored[1].s]) # ToLowerCase(Chars[queryTerm])

\* .slice(0, 6)
SuggestionCount == 6

\* .filter((x) => isFinite(x.score)) on the mapped pool.
FiniteScored(query, src) ==
    SelectSeq([i \in 1..Len(src) |-> [s |-> src[i], score |-> ScoreTable[query, src[i]]]],
              LAMBDA x : ~x.score.inf)

\* A getSuggestions that skips the sort (the mutant of C16).
getSuggestionsUnsorted(query, trend, cats, ars, ingredientStore) ==
    IF Trim(Chars[query]) = << >> THEN << >>
    ELSE LET scored == FiniteScored(query, buildSourceList(trend, cats, ars, ingredientStore))
         IN  [i \in 1..Min2(SuggestionCount, Len(scored)) |-> scored[i].s]

\* getSuggestions(query), with the state buildSourceList reads as parameters.
getSuggestions(query, trend, cats, ars, ingredientStore) ==
    IF Trim(Chars[query]) = << >> THEN << >>
    ELSE LET scored == SortByScore(FiniteScored(query,
                           buildSourceList(trend, cats, ars, ingredientStore)))
         IN  [i \in 1..Min2(SuggestionCount, Len(scored)) |-> scored[i].s]

\* ------------------------------------------------------------- state ----
VARIABLES
    cache,              \* the module-level cache: one Map per filter kind
    ingredientInput,    \* useState: the ingredient text box
    selectedCategory,   \* useState: the category dropdown ("" when unset)
    selectedArea,       \* useState: the area dropdown ("" when unset)
    categories,         \* useState: dropdown options
    areas,              \* useState: dropdown options
    trending,           \* useState: the trending list
    trendingLoading,    \* useState
    results,            \* useState: the published result list
    loading,            \* useState
    error,              \* useState: the message shown
    mount,              \* the two async blocks of the mount effect
    searches,           \* the handleSearch invocations, in invocation order
    started,            \* how many handleSearch invocations were made
    calls,              \* fetch calls in flight
    timers,             \* pending setTimeout callbacks of handleSearch
    netCalls,           \* history: filter requests sent, a bag of <<search, kind, key>>
    fnArgs,             \* the arguments of a helper called on its own
    fnRet,              \* what that call returned
    refresh,            \* the Refresh button of the trending section: clicks, loads pending
    unhandled           \* how many promise rejections no handler caught

vars == <<cache, ingredientInput, selectedCategory, selectedArea, categories, areas,
          trending, trendingLoading, results, loading, error, mount, searches,
          started, calls, timers, netCalls, fnArgs, fnRet, refresh, unhandled>>

\* The helpers are called on their own only in the specifications that study
\* them; the App never touches these two.
NotCalled == [done |-> FALSE, value |-> << >>]
helperVars == <<fnArgs, fnRet>>

\* The values of `error`.
Message(m, q, c) == [msg |-> m, q |-> q, c |-> c]
NoError == Message("", "", "")
RetryMessage == Message("Something went wrong. Please try again.", "", "")
NoRecipesMessage == Message("No recipes found. Try different filters.", "", "")
\* `No results for "${queryTerm}". Did you mean "${best.s}"? ...`
DidYouMeanMessage(q, c) == Message("Did you mean", q, c)

Searches == 1..MaxSearches

\* A handleSearch invocation: where it is suspended, what its closure holds
\* (queryTerm and the state values of the render that created it), the slots
\* of its Promise.all, its `lists`, and how it ended.
IdleSearch ==
    [pc |-> "idle", queryTerm |-> "", cat |-> "", area |-> "",
     trending |-> << >>, categories |-> << >>, areas |-> << >>,
     got |-> << >>, lists |-> << >>,
     outcome |-> "none", deduped |-> << >>, during |-> {}]

InFlight(s) == searches[s].pc \in {"ingredients", "category", "area"}

Call(s, kind, key, idx) == [s |-> s, kind |-> kind, key |-> key, idx |-> idx]

AppInit ==
    /\ cache = EmptyCache
    /\ ingredientInput = ""
    /\ selectedCategory = ""
    /\ selectedArea = ""
    /\ categories = << >>
    /\ areas = << >>
    /\ trending = << >>
    /\ trendingLoading = TRUE
    /\ results = << >>
    /\ loading = FALSE
    /\ error = NoError
    /\ mount = [dropdowns |-> "pending", trending |-> "pending"]
    /\ searches = [s \in Searches |-> IdleSearch]
    /\ started = 0
    /\ calls = {}
    /\ timers = {}
    /\ netCalls = EmptyBag
    /\ refresh = [clicks |-> 0, pending |-> 0]
    /\ unhandled = 0

Init ==
    /\ AppInit
    /\ fnArgs = << >>
    /\ fnRet = NotCalled

\* ------------------------------------------------------ mount effect ----
\* Promise.all([listCategories, listAreas]) resolved.
DropdownsLoaded ==
    /\ mount.dropdowns = "pending"
    /\ mount' = [mount EXCEPT !.dropdowns = "done"]
    /\ categories' = ApiCategories
    /\ areas' = ApiAreas
    /\ UNCHANGED <<cache, ingredientInput, selectedCategory, selectedArea, trending,
                   trendingLoading, results, loading, error, searches, started,
                   calls, timers, netCalls, fnArgs, fnRet,
                   refresh, unhandled>>

\* One of the two calls failed: catch { /* non-blocking */ }.
DropdownsFailed ==
    /\ mount.dropdowns = "pending"
    /\ mount' = [mount EXCEPT !.dropdowns = "done"]
    /\ UNCHANGED <<cache, ingredientInput, selectedCategory, selectedArea, categories,
                   areas, trending, trendingLoading, results, loading, error,
                   searches, started, calls, timers, netCalls, fnArgs, fnRet,
                   refresh, unhandled>>

\* Promise.all of the random calls resolved: merge by id.
TrendingLoaded ==
    /\ mount.trending = "pending"
    /\ \E packs \in RandomPacks : trending' = DedupeById(FlatMeals(packs))
    /\ trendingLoading' = FALSE
    /\ mount' = [mount EXCEPT !.trending = "done"]
    /\ UNCHANGED <<cache, ingredientInput, selectedCategory, selectedArea, categories,
                   areas, results, loading, error, searches, started, calls, timers,
                   netCalls, fnArgs, fnRet,
                   refresh, unhandled>>

\* One of the random calls failed: catch { setTrending([]) }.
TrendingFailed ==
    /\ mount.trending = "pending"
    /\ trending' = << >>
    /\ trendingLoading' = FALSE
    /\ mount' = [mount EXCEPT !.trending = "done"]
    /\ UNCHANGED <<cache, ingredientInput, selectedCategory, selectedArea, categories,
                   areas, results, loading, error, searches, started, calls, timers,
                   netCalls, fnArgs, fnRet,
                   refresh, unhandled>>

\* ------------------------------------------------------ handleSearch ----
\* queryTerm.split(",").map((s) => s.trim()).filter(Boolean)
Ingredients(queryTerm) ==
    LET pieces == Split(Chars[queryTerm])
    IN  SelectSeq([i \in 1..Len(pieces) |-> Trim(pieces[i])],
                  LAMBDA piece : piece # << >>)

\* const key = ing.toLowerCase()
CacheKey(ing) == Text(ToLowerCase(ing))

\* A fetchListCached that never looks into the Map (the mutant of C1).
CacheNeverHit(store, key) == FALSE

\* fetchListCached up to its await: a hit resolves with the stored list, a
\* miss sends the request.
CacheHit(store, key) == MapHas(store, key)

\* The slots of Promise.all(ingredients.map(...)): filled for the hits.
IngredientSlots(keys, store) ==
    [i \in 1..Len(keys) |->
        IF CacheHit(store, keys[i])
        THEN [ready |-> TRUE, meals |-> MapGet(store, keys[i])]
        ELSE [ready |-> FALSE, meals |-> << >>]]

\* The requests the misses send, in the order of the terms.
IngredientCalls(s, keys, store) ==
    SelectSeq([i \in 1..Len(keys) |-> Call(s, "ingredient", keys[i], i)],
              LAMBDA c : ~CacheHit(store, c.key))

AllReady(got) == \A i \in 1..Len(got) : got[i].ready

SlotMeals(got) == [i \in 1..Len(got) |-> got[i].meals]

\* What one run of handleSearch between two suspensions comes to: the
\* invocation's new record, the requests it sent, and whether it ran to its
\* end.
WaitOn(sr, pc, lists, sent) ==
    [sr |-> [sr EXCEPT !.pc = pc, !.lists = lists], sent |-> sent, finished |-> FALSE]

RunToEnd(sr, lists) ==
    [sr |-> [sr EXCEPT !.lists = lists], sent |-> << >>, finished |-> TRUE]

\* if (selectedArea) lists.push(await fetchListCached("area", ...))
AreaStage(s, sr, lists, c) ==
    IF sr.area # ""
    THEN IF CacheHit(c.area, sr.area)
         THEN RunToEnd(sr, Append(lists, MapGet(c.area, sr.area)))
         ELSE WaitOn(sr, "area", lists, <<Call(s, "area", sr.area, 0)>>)
    ELSE RunToEnd(sr, lists)

\* if (selectedCategory) lists.push(await fetchListCached("category", ...))
CategoryStage(s, sr, lists, c) ==
    IF sr.cat # ""
    THEN IF CacheHit(c.category, sr.cat)
         THEN AreaStage(s, sr, Append(lists, MapGet(c.category, sr.cat)), c)
         ELSE WaitOn(sr, "category", lists, <<Call(s, "category", sr.cat, 0)>>)
    ELSE AreaStage(s, sr, lists, c)

\* lists.push(intersectById(ingredientLists))
AfterIngredients(s, sr, c) ==
    CategoryStage(s, sr, <<intersectById(SlotMeals(sr.got))>>, c)

\* if (ingredients.length) { await Promise.all(...) }
IngredientStage(s, sr, c) ==
    LET ings == Ingredients(sr.queryTerm)
        keys == [i \in 1..Len(ings) |-> CacheKey(ings[i])]
        sr1 == [sr EXCEPT !.got = IngredientSlots(keys, c.ingredient)]
    IN  IF ings # << >>
        THEN IF AllReady(sr1.got)
             THEN AfterIngredients(s, sr1, c)
             ELSE WaitOn(sr1, "ingredients", << >>, IngredientCalls(s, keys, c.ingredient))
        ELSE CategoryStage(s, sr, << >>, c)

\* A combination without the fallback to trending (the mutant of C7).
MergedNoFallback(lists, trend) ==
    IF lists = << >> THEN << >>
    ELSE IF Len(lists) = 1 THEN lists[1]
    ELSE intersectById(lists)

\* A combination that keeps the first filter list only (the mutant of C8).
MergedFirstList(lists, trend) ==
    IF lists = << >> THEN trend ELSE lists[1]

\* let merged = []; if (!lists.length) merged = trending; ...
Merged(lists, trend) ==
    IF lists = << >> THEN trend
    ELSE IF Len(lists) = 1 THEN lists[1]
    ELSE intersectById(lists)

\* How an invocation is kept once it has settled: its inputs, its terminal
\* state and the list it published.
Settled(sr, outcome, deduped) ==
    [IdleSearch EXCEPT !.pc = "done", !.queryTerm = sr.queryTerm, !.cat = sr.cat,
                       !.area = sr.area, !.during = sr.during,
                       !.outcome = outcome, !.deduped = deduped]

RECURSIVE CountCalls(_, _)
CountCalls(bag, sent) ==
    IF sent = << >> THEN bag
    ELSE CountCalls(bag (+) SetToBag({<<Head(sent).s, Head(sent).kind, Head(sent).key>>}),
                    Tail(sent))

\* The state after a run of handleSearch: `eff` is what the run came to,
\* `c` the cache it ran against, errorNow/loadingNow the values of error and
\* loading when it resumed.
Settle(s, eff, c, callsNow, errorNow, loadingNow) ==
    LET sr == eff.sr
        deduped == DedupeById(Merged(sr.lists, sr.trending))
        src == buildSourceList(sr.trending, sr.categories, sr.areas, c.ingredient)
        scored == Scored(sr.queryTerm, src)
    IN  /\ calls' = callsNow \cup Range(eff.sent)
        /\ netCalls' = CountCalls(netCalls, eff.sent)
        /\ IF ~eff.finished
           THEN /\ searches' = [searches EXCEPT ![s] = sr]
                /\ results' = results
                /\ error' = errorNow
                /\ loading' = loadingNow
                /\ timers' = timers
           ELSE /\ results' = deduped
                /\ loading' = FALSE
                /\ IF deduped # << >>
                   THEN /\ searches' = [searches EXCEPT ![s] = Settled(sr, "Succeeded", deduped)]
                        /\ error' = errorNow
                        /\ timers' = timers
                   ELSE IF SuggestionShown(sr.queryTerm, scored)
                   THEN /\ searches' = [searches EXCEPT
                                           ![s] = Settled(sr, "EmptyWithSuggestion", deduped)]
                        /\ error' = NoError
                        /\ timers' = timers \cup
                               {[s |-> s, q |-> sr.queryTerm, c |-> scored[1].s]}
                   ELSE /\ searches' = [searches EXCEPT
                                           ![s] = Settled(sr, "EmptyNoSuggestion", deduped)]
                        /\ error' = NoRecipesMessage
                        /\ timers' = timers

\* The user fills the ingredient box and the two dropdowns (their onChange
\* handlers only assign ingredientInput, selectedCategory, selectedArea; a
\* dropdown offers "" and its loaded options), then handleSearch() runs from
\* the Search button or the Enter key, up to its first suspension (or to its
\* end when nothing has to be fetched).
HandleSearch(q, c, a) ==
    /\ started < MaxSearches
    /\ started' = started + 1
    /\ ingredientInput' = q
    /\ selectedCategory' = c
    /\ selectedArea' = a
    /\ LET s == started + 1
           sr == [IdleSearch EXCEPT !.queryTerm = q, !.cat = c, !.area = a,
                      !.trending = trending, !.categories = categories,
                      !.areas = areas, !.during = {t \in Searches : InFlight(t)}]
       IN  Settle(s, IngredientStage(s, sr, cache), cache, calls, NoError, TRUE)
    /\ UNCHANGED <<cache, categories, areas, trending, trendingLoading, mount, fnArgs, fnRet,
                   refresh, unhandled>>

\* A store that keeps only the entry written last (the mutant of C12).
StoreEvicting(store, key, meals) == MapSet(<< >>, key, meals)

\* What a resolved request does to the Map: store.set(key, meals).
StoreOnSuccess(store, key, meals) == MapSet(store, key, meals)

\* A fetchListCached that stores the empty list when the request fails (the
\* mutant of C2).
StoreEmptyOnFailure(store, key) == MapSet(store, key, << >>)

\* What a rejected request does to the Map: fetchJSON throws before
\* store.set is reached.
StoreOnFailure(store, key) == store

\* The invocation resumes with the list of request c.
Resume(c, sr, meals, cacheNow) ==
    CASE c.kind = "ingredient" ->
            LET sr1 == [sr EXCEPT !.got[c.idx] = [ready |-> TRUE, meals |-> meals]]
            IN  IF AllReady(sr1.got)
                THEN AfterIngredients(c.s, sr1, cacheNow)
                ELSE WaitOn(sr1, "ingredients", << >>, << >>)
      [] c.kind = "category" -> AreaStage(c.s, sr, Append(sr.lists, meals), cacheNow)
      [] c.kind = "area" -> RunToEnd(sr, Append(sr.lists, meals))

\* A request comes back with a parseable body: the rest of fetchListCached,
\* then the invocation that awaits it, if it has not already failed.
FetchSucceeds(c) ==
    /\ c \in calls
    /\ LET meals == MealsOf(ApiFilter(c.kind, c.key))
           cacheNow == [cache EXCEPT ![c.kind] = StoreOnSuccess(@, c.key, meals)]
       IN  /\ cache' = cacheNow
           /\ IF InFlight(c.s)
              THEN Settle(c.s, Resume(c, searches[c.s], meals, cacheNow), cacheNow,
                          calls \ {c}, error, loading)
              ELSE /\ calls' = calls \ {c}
                   /\ UNCHANGED <<results, loading, error, searches, timers, netCalls>>
    /\ UNCHANGED <<ingredientInput, selectedCategory, selectedArea, categories, areas,
                   trending, trendingLoading, mount, started, fnArgs, fnRet,
                   refresh, unhandled>>

\* A handleSearch without its catch: the rejection leaves the invocation
\* where it was (the mutant of C13).
Escaped(sr) == sr

\* A handler that swallows the rejection and reports an empty result (the
\* mutant of C3).
CaughtAsEmpty(sr) == Settled(sr, "EmptyNoSuggestion", << >>)

\* catch (e) { setError(...) } finally { setLoading(false) }
Caught(sr) == Settled(sr, "Failed", << >>)

\* A request fails (network error, non-success status, unparseable body):
\* the first failure rejects the await of its invocation.
FetchFails(c) ==
    /\ c \in calls
    /\ calls' = calls \ {c}
    /\ cache' = [cache EXCEPT ![c.kind] = StoreOnFailure(@, c.key)]
    /\ IF InFlight(c.s)
       THEN /\ searches' = [searches EXCEPT ![c.s] = Caught(@)]
            /\ error' = RetryMessage
            /\ loading' = FALSE
       ELSE UNCHANGED <<searches, error, loading>>
    /\ UNCHANGED <<ingredientInput, selectedCategory, selectedArea, categories, areas,
                   trending, trendingLoading, results, mount, started, timers, netCalls, fnArgs, fnRet,
                   refresh, unhandled>>

\* The callback of setTimeout(..., 100) runs.
TimerFires(t) ==
    /\ t \in timers
    /\ timers' = timers \ {t}
    /\ error' = DidYouMeanMessage(t.q, t.c)
    /\ UNCHANGED <<cache, ingredientInput, selectedCategory, selectedArea, categories,
                   areas, trending, trendingLoading, results, loading, mount, searches,
                   started, calls, netCalls, fnArgs, fnRet,
                   refresh, unhandled>>

Next ==
    \/ DropdownsLoaded
    \/ DropdownsFailed
    \/ TrendingLoaded
    \/ TrendingFailed
    \/ \E q \in Queries, c \in {""} \cup Range(categories),
          a \in {""} \cup Range(areas) : HandleSearch(q, c, a)
    \/ \E c \in calls : FetchSucceeds(c)
    \/ \E c \in calls : FetchFails(c)
    \/ \E t \in timers : TimerFires(t)

Spec == Init /\ [][Next]_vars

\* Every request that is sent settles: the browser resolves or rejects the
\* promise of every fetch.
Settles == \E c \in calls : FetchFails(c) \/ FetchSucceeds(c)

SpecFair == Spec /\ WF_vars(Settles)

\* --------------------------------------------- auxiliary operations ----
\* The mount effect and the Refresh button of the trending section, on
\* their own: handleSearch writes none of categories, areas, trending and
\* trendingLoading.
MaxRefreshes == 2
RefreshCalls == 6

\* The bodies the RefreshCalls calls of one Refresh may bring back.
RefreshPacks ==
    { [i \in 1..RefreshCalls |-> Envelope(<<(<<m2, m3, m4>>)[((i - 1) % 3) + 1]>>)],
      [i \in 1..RefreshCalls |-> IF i = 1 THEN Envelope(<<m4>>) ELSE NullEnvelope] }

\* onClick of Refresh: setTrendingLoading(true), then the calls are sent.
\* The button is rendered under !loading && !error && !hasSearchedRef.current.
RefreshClicked ==
    /\ ~loading /\ error = NoError /\ started = 0
    /\ refresh.clicks < MaxRefreshes
    /\ refresh' = [clicks |-> refresh.clicks + 1, pending |-> refresh.pending + 1]
    /\ trendingLoading' = TRUE
    /\ UNCHANGED <<cache, ingredientInput, selectedCategory, selectedArea, categories,
                   areas, trending, results, loading, error, mount, searches, started,
                   calls, timers, netCalls, fnArgs, fnRet, unhandled>>

\* Promise.all of the calls of a Refresh resolved: merge by id, then finally.
RefreshLoaded ==
    /\ refresh.pending > 0
    /\ refresh' = [refresh EXCEPT !.pending = @ - 1]
    /\ \E packs \in RefreshPacks : trending' = DedupeById(FlatMeals(packs))
    /\ trendingLoading' = FALSE
    /\ UNCHANGED <<cache, ingredientInput, selectedCategory, selectedArea, categories,
                   areas, results, loading, error, mount, searches, started, calls,
                   timers, netCalls, fnArgs, fnRet, unhandled>>

\* One of the calls of a Refresh failed: try { ... } finally { ... } has no
\* catch, so finally runs and the rejection leaves the handler.
RefreshFailed ==
    /\ refresh.pending > 0
    /\ refresh' = [refresh EXCEPT !.pending = @ - 1]
    /\ trendingLoading' = FALSE
    /\ unhandled' = unhandled + 1
    /\ UNCHANGED <<cache, ingredientInput, selectedCategory, selectedArea, categories,
                   areas, trending, results, loading, error, mount, searches, started,
                   calls, timers, netCalls, fnArgs, fnRet>>

NextAux ==
    \/ DropdownsLoaded
    \/ DropdownsFailed
    \/ TrendingLoaded
    \/ TrendingFailed
    \/ RefreshClicked
    \/ RefreshLoaded
    \/ RefreshFailed

SpecAux == Init /\ [][NextAux]_vars

\* ------------------------------------------------- scoreMatch alone ----
\* scoreMatch called once on a query and a candidate of at most MaxStrLen
\* characters over a small alphabet: a letter in both cases, another
\* letter, the blank.
MaxStrLen == 3
Alphabet == {"c", "C", "i", " "}

Strings == SeqsUpTo(Alphabet, MaxStrLen)

InitScore ==
    /\ AppInit
    /\ fnArgs \in Strings \X Strings
    /\ fnRet = NotCalled

CallScoreMatch ==
    /\ ~fnRet.done
    /\ fnRet' = [done |-> TRUE, value |-> scoreMatch(fnArgs[1], fnArgs[2])]
    /\ UNCHANGED <<cache, ingredientInput, selectedCategory, selectedArea, categories,
                   areas, trending, trendingLoading, results, loading, error, mount,
                   searches, started, calls, timers, netCalls, fnArgs, refresh, unhandled>>

NextScore == CallScoreMatch

SpecScore == InitScore /\ [][NextScore]_vars

\* --------------------------------------------- getSuggestions alone ----
\* getSuggestions called once on a query, with trending, categories, areas
\* and the ingredient keys of the cache drawn from small sets.  A trending
\* list repeats no id (it is built through a Map) and holds at most
\* MaxTrending meals, one of which may have an empty name.
MaxTrending == 3
Nameless == Meal(5, "")

TrendingLists ==
    {t \in SeqsUpTo({m1, m2, m3, Nameless}, MaxTrending) :
        \A i, j \in 1..Len(t) : t[i] = t[j] => i = j}

IngredientStores ==
    { EmptyCache.ingredient,
      MapSet(EmptyCache.ingredient, "chicken", <<m1, m2, m3>>),
      MapSet(EmptyCache.ingredient, "chiken", << >>),
      MapSet(MapSet(EmptyCache.ingredient, "garlic", <<m2, m3, m4>>),
             "chicken", <<m1, m2, m3>>) }

InitSuggest ==
    /\ AppInit
    /\ fnArgs \in [query : Queries, trending : TrendingLists,
                    categories : {<< >>, ApiCategories}, areas : {<< >>, ApiAreas},
                    store : IngredientStores]
    /\ fnRet = NotCalled

CallGetSuggestions ==
    /\ ~fnRet.done
    /\ fnRet' = [done |-> TRUE,
                 value |-> getSuggestions(fnArgs.query, fnArgs.trending,
                                          fnArgs.categories, fnArgs.areas, fnArgs.store)]
    /\ UNCHANGED <<cache, ingredientInput, selectedCategory, selectedArea, categories,
                   areas, trending, trendingLoading, results, loading, error, mount,
                   searches, started, calls, timers, netCalls, fnArgs, refresh, unhandled>>

NextSuggest == CallGetSuggestions

SpecSuggest == InitSuggest /\ [][NextSuggest]_vars

\* ---------------------------------------------- intersectById alone ----
\* The exported intersectById, called once on an array of at most MaxLists
\* lists of at most MaxListLen meals; a list may repeat a meal.
MaxLists == 2
MaxListLen == 2

InitIntersect ==
    /\ AppInit
    /\ fnArgs \in SeqsUpTo(SeqsUpTo({m1, m2, m3}, MaxListLen), MaxLists)
    /\ fnRet = NotCalled

CallIntersectById ==
    /\ ~fnRet.done
    /\ fnRet' = [done |-> TRUE, value |-> intersectById(fnArgs)]
    /\ UNCHANGED <<cache, ingredientInput, selectedCategory, selectedArea, categories,
                   areas, trending, trendingLoading, results, loading, error, mount,
                   searches, started, calls, timers, netCalls, fnArgs, refresh, unhandled>>

NextIntersect == CallIntersectById

SpecIntersect == InitIntersect /\ [][NextIntersect]_vars

\* ------------------------------------------------------------ claims ----
\* What the formulas below read off a step or a state.
JustStarted(s) == started' = s /\ started = s - 1
JustSettled(s) == searches[s].pc # "done" /\ searches'[s].pc = "done"
Sent == calls' \ calls
TermsOf == [q \in Queries |-> Ingredients(q)]
Terms(q) == TermsOf[q]
LowerText(cs) == Text(ToLowerCase(cs))
TermKeys(q) == {LowerText(Terms(q)[i]) : i \in 1..Len(Terms(q))}
IssuedBy(s, key) == CopiesIn(<<s, "ingredient", key>>, netCalls)
RECURSIVE IssuedUpTo(_, _)
IssuedUpTo(n, key) == IF n = 0 THEN 0 ELSE IssuedBy(n, key) + IssuedUpTo(n - 1, key)
IssuedFor(key) == IssuedUpTo(MaxSearches, key)

\* C1, per step: a search that starts when the cache holds the entry of the
\* lower-cased spelling of one of its terms sends no request for that term, in
\* whatever letter case the term was typed, and the slot of that term holds
\* the stored list.
C1_Step ==
    \A s \in Searches : JustStarted(s) =>
        LET q == searches'[s].queryTerm
        IN  \A i \in 1..Len(Terms(q)) :
                LET key == LowerText(Terms(q)[i])
                IN  MapHas(cache.ingredient, key) =>
                        /\ \A c \in Sent : ~(c.s = s /\ c.kind = "ingredient" /\ c.idx = i)
                        /\ \A c \in Sent : c.kind = "ingredient" =>
                               ToLowerCase(Chars[c.key]) # Chars[key]
                        /\ CopiesIn(<<s, "ingredient", key>>, netCalls') = 0
                        /\ InFlight(s)' =>
                               searches'[s].got[i] =
                                   [ready |-> TRUE, meals |-> MapGet(cache.ingredient, key)]

\* C1, over whole searches: when a search that did not fail has fetched key
\* k, a search started after it settled has sent no request for k.
C1_Sequential ==
    \A s1, s2 \in Searches : \A k \in TermKeys(searches[s1].queryTerm) :
        /\ s1 < s2
        /\ searches[s1].pc = "done" /\ searches[s1].outcome # "Failed"
        /\ IssuedBy(s1, k) >= 1
        /\ searches[s2].pc # "idle" /\ s1 \notin searches[s2].during
        => IssuedBy(s2, k) = 0

\* C1: once an ingredient fetch for key k has been stored, a later search
\* whose terms include k in any letter case sends no request for k and uses
\* the stored list; two sequential searches for "chicken" send one request.
C1_CachedIngredientIsNotRefetched == [][C1_Step]_vars /\ [](C1_Sequential)

\* C1 witness: two sequential searches for Chicken are over, the second was
\* served from the cache, one request was sent.
C1_Witness ==
    /\ searches[1].pc = "done" /\ searches[1].queryTerm = "Chicken"
    /\ searches[1].outcome = "Succeeded"
    /\ searches[2].pc = "done" /\ searches[2].queryTerm = "Chicken"
    /\ searches[2].during = {}
    /\ searches[2].outcome = "Succeeded"
    /\ IssuedFor("chicken") = 1
    /\ IssuedFor("Chicken") = 0

\* C2 as stated: after a request for (kind, key) has failed, the cache has
\* no entry for (kind, key).
C2_NoEntryAfterFailure ==
    \A c \in calls : FetchFails(c) => ~MapHas(cache'[c.kind], c.key)

\* C2, its last part: a search that needs a list the cache does not hold
\* sends a request for it (for the ingredient terms when it starts, for the
\* category and the area when it reaches them), and does not end, unless it
\* fails, before the cache holds every list it needs.
C2_MissIsFetched ==
    \A s \in Searches :
        /\ JustStarted(s) =>
               LET q == searches'[s].queryTerm
               IN  \A i \in 1..Len(Terms(q)) :
                       LET key == LowerText(Terms(q)[i])
                       IN  ~MapHas(cache.ingredient, key) =>
                               /\ Call(s, "ingredient", key, i) \in Sent
                               /\ CopiesIn(<<s, "ingredient", key>>, netCalls') >= 1
        /\ searches'[s].pc = "category" /\ searches[s].pc # "category" =>
               /\ ~MapHas(cache'.category, searches'[s].cat)
               /\ Call(s, "category", searches'[s].cat, 0) \in Sent
        /\ searches'[s].pc = "area" /\ searches[s].pc # "area" =>
               /\ ~MapHas(cache'.area, searches'[s].area)
               /\ Call(s, "area", searches'[s].area, 0) \in Sent
        /\ JustSettled(s) /\ searches'[s].outcome # "Failed" =>
               /\ \A k \in TermKeys(searches'[s].queryTerm) : MapHas(cache'.ingredient, k)
               /\ searches'[s].cat # "" => MapHas(cache'.category, searches'[s].cat)
               /\ searches'[s].area # "" => MapHas(cache'.area, searches'[s].area)

\* C2 (original statement): a failed fetch is never cached: once the request
\* for (kind, key) has failed the cache has no entry for (kind, key), and the
\* next search that needs (kind, key) sends a new request.
C2_Original == [][C2_NoEntryAfterFailure /\ C2_MissIsFetched]_vars

\* C2 (amended): a failed request stores nothing, the cache is after the
\* failure what it was before it; and while the cache has no entry for
\* (kind, key), a search that needs it sends a new request.
C2_FailedFetchStoresNothing ==
    [][(\A c \in calls : FetchFails(c) => cache' = cache) /\ C2_MissIsFetched]_vars

\* C2 witness: the request of the first search for Chicken failed, nothing
\* was stored, and the second search has sent the request again.
C2_Witness ==
    /\ searches[1].queryTerm = "Chicken" /\ searches[1].outcome = "Failed"
    /\ ~MapHas(cache.ingredient, "chicken")
    /\ searches[2].queryTerm = "Chicken" /\ searches[2].pc = "ingredients"
    /\ searches[2].during = {}
    /\ IssuedBy(1, "chicken") = 1 /\ IssuedBy(2, "chicken") = 1

\* C3, the failing step: when a request of a search fails, the search is
\* over in state Failed, the published results are untouched, and if the
\* search was still waiting the retry message is shown and loading is off.
C3_FailureStep ==
    \A c \in calls : FetchFails(c) =>
        /\ searches'[c.s].pc = "done" /\ searches'[c.s].outcome = "Failed"
        /\ results' = results
        /\ InFlight(c.s) => error' = RetryMessage /\ loading' = FALSE

\* C3, publication: results change only in the step in which a search ends
\* in a state other than Failed, and then to the list that search computed;
\* a search that is over never runs again.
C3_Publication ==
    /\ results' # results =>
           \E s \in Searches :
               /\ JustSettled(s) /\ searches'[s].outcome # "Failed"
               /\ results' = searches'[s].deduped
    /\ \A s \in Searches : searches[s].pc = "done" => searches'[s] = searches[s]

\* C3: if any request of a search fails, the search ends in state Failed with
\* the retry message, and no list computed from the requests that succeeded
\* is published.
C3_FailureDiscardsPartialResults == [][C3_FailureStep /\ C3_Publication]_vars

\* C3 witness: of the two requests of "chicken, garlic" one was stored and
\* the other failed; the retry message is shown and nothing was published.
C3_Witness ==
    /\ searches[1].queryTerm = "chicken, garlic" /\ searches[1].outcome = "Failed"
    /\ MapHas(cache.ingredient, "garlic") /\ ~MapHas(cache.ingredient, "chicken")
    /\ error = RetryMessage /\ results = << >> /\ ~loading
    /\ started = 1

\* The values of trending, categories and areas that invocation s closed
\* over, read in the state before the step in which it settles.
Closure(s) ==
    IF searches[s].pc = "idle"
    THEN [trending |-> trending, categories |-> categories, areas |-> areas]
    ELSE [trending |-> searches[s].trending, categories |-> searches[s].categories,
          areas |-> searches[s].areas]

\* The candidate pool of invocation s in the step in which it settles.
PoolOf(s) ==
    buildSourceList(Closure(s).trending, Closure(s).categories, Closure(s).areas,
                    cache'.ingredient)

\* A text without letter case and surrounding whitespace.
Norm(t) == ToLowerCase(Trim(Chars[t]))

\* The (query, candidate) pairs of the did-you-mean messages that are shown
\* or about to be shown.
DidYouMeanPairs ==
    {[q |-> t.q, c |-> t.c] : t \in timers}
        \cup (IF error.msg = "Did you mean" THEN {[q |-> error.q, c |-> error.c]} ELSE {})

\* C4: the candidate sources supply "chicken curry", "chicken" and "rice";
\* a search for the ingredient query "chiken" that gets no match from the API
\* ends in EmptyWithSuggestion with "chicken" as the did-you-mean candidate.
C4_TypoGetsChicken ==
    [][\A s \in Searches :
           /\ JustSettled(s)
           /\ searches'[s].queryTerm = "chiken"
           /\ searches'[s].outcome # "Failed" /\ searches'[s].deduped = << >>
           /\ {"chicken curry", "chicken", "rice"} \subseteq Range(PoolOf(s))
           => /\ searches'[s].outcome = "EmptyWithSuggestion"
              /\ [s |-> s, q |-> "chiken", c |-> "chicken"] \in timers']_vars

\* C5: the candidate c of a did-you-mean message for query q is never equal,
\* letter case and surrounding whitespace ignored, to q or to an ingredient
\* term of q.
C5_NeverTheFailedTerm ==
    \A p \in DidYouMeanPairs :
        /\ Norm(p.c) # Norm(p.q)
        /\ \A i \in 1..Len(Terms(p.q)) : Norm(p.c) # ToLowerCase(Terms(p.q)[i])

\* What the score of candidate t for query q being below 0.4 comes to: t
\* contains q, or 5 * editDistance(q, t) < 2 * length(t), both read without
\* letter case and surrounding whitespace as scoreMatch reads them.
CloseTable ==
    [q \in Queries, t \in Texts |->
        /\ Norm(q) # << >> /\ Norm(t) # << >>
        /\ \/ Includes(Norm(t), Norm(q))
           \/ 5 * levenshtein(Norm(q), Norm(t)) < 2 * Len(Norm(t))]

\* Candidate c is one a did-you-mean for query q may name, given the pool.
C6_Allowed(q, c, pool) ==
    /\ c \in Range(pool)
    /\ \A t \in Range(pool) : ~ScoreLess(ScoreTable[q, t], ScoreTable[q, c])
    /\ BelowThreshold(ScoreTable[q, c])
    /\ CloseTable[q, c]
    /\ ToLowerCase(Chars[c]) # ToLowerCase(Chars[q])

\* C6: a search ends in EmptyWithSuggestion naming c only if the deduplicated
\* result is empty, c has the lowest score of the candidate pool for the raw
\* query, that score is below 0.4, and lower-cased c differs from the
\* lower-cased query; every other search with an empty result that did not
\* fail ends in EmptyNoSuggestion with the generic message.  A did-you-mean
\* message appears only from the timer such a search set.
C6_SuggestionOnlyWhenCloseAndDifferent ==
    [][/\ \A s \in Searches : JustSettled(s) /\ searches'[s].outcome # "Failed" =>
              LET q == searches'[s].queryTerm
                  empty == searches'[s].deduped = << >>
              IN  /\ searches'[s].outcome = "EmptyWithSuggestion" =>
                         /\ empty /\ results' = << >> /\ error' = NoError
                         /\ \E c \in Range(PoolOf(s)) :
                                /\ C6_Allowed(q, c, PoolOf(s))
                                /\ timers' = timers \cup {[s |-> s, q |-> q, c |-> c]}
                  /\ empty /\ searches'[s].outcome # "EmptyWithSuggestion" =>
                         /\ searches'[s].outcome = "EmptyNoSuggestion"
                         /\ error' = NoRecipesMessage /\ timers' = timers
                  /\ ~empty => searches'[s].outcome = "Succeeded" /\ timers' = timers
       /\ error'.msg = "Did you mean" /\ error' # error =>
              \E t \in timers :
                  /\ error' = DidYouMeanMessage(t.q, t.c)
                  /\ searches[t.s].outcome = "EmptyWithSuggestion"]_vars

\* C6 witness: with trending loaded, the search for "curry" found nothing
\* and its did-you-mean names "chicken curry".
C6_Witness ==
    /\ searches[1].queryTerm = "curry" /\ searches[1].outcome = "EmptyWithSuggestion"
    /\ results = << >>
    /\ error = DidYouMeanMessage("curry", "chicken curry")

\* Invocation s has an empty FilterSet: no ingredient term that is not
\* blank, no category, no area.
EmptyFilterSet(sr) == Terms(sr.queryTerm) = << >> /\ sr.cat = "" /\ sr.area = ""

\* C7 (original statement): a search with an empty FilterSet sends no filter
\* request, publishes the current trending list as it is and ends in
\* Succeeded, whatever the trending list holds.
C7_Original ==
    [][\A s \in Searches : JustStarted(s) /\ EmptyFilterSet(searches'[s]) =>
           /\ Sent = {} /\ netCalls' = netCalls
           /\ results' = trending
           /\ searches'[s].pc = "done" /\ searches'[s].outcome = "Succeeded"]_vars

\* C7 (amended): a search with an empty FilterSet sends no filter request
\* and publishes the current trending list as it is; it ends in Succeeded
\* when that list is not empty, and in EmptyNoSuggestion with the generic
\* message when it is empty (trending not loaded yet, or its load failed).
C7_EmptyFilterSetShowsTrending ==
    [][\A s \in Searches : JustStarted(s) /\ EmptyFilterSet(searches'[s]) =>
           /\ Sent = {} /\ netCalls' = netCalls
           /\ results' = trending
           /\ searches'[s].pc = "done" /\ ~loading'
           /\ trending # << >> =>
                  searches'[s].outcome = "Succeeded" /\ error' = NoError
           /\ trending = << >> =>
                  /\ searches'[s].outcome = "EmptyNoSuggestion"
                  /\ error' = NoRecipesMessage]_vars

\* C7 witness: the first empty search ran before trending was loaded and
\* found nothing; the second ran after the load and shows the trending list.
C7_Witness ==
    /\ EmptyFilterSet(searches[1]) /\ searches[1].outcome = "EmptyNoSuggestion"
    /\ EmptyFilterSet(searches[2]) /\ searches[2].outcome = "Succeeded"
    /\ trending # << >> /\ results = trending
    /\ netCalls = EmptyBag

\* The per-filter lists of invocation sr as the API gives them: one per
\* ingredient term, the category list if set, the area list if set.
FilterLists(sr) ==
    {MealsOf(ApiFilter("ingredient", k)) : k \in TermKeys(sr.queryTerm)}
        \cup (IF sr.cat # "" THEN {MealsOf(ApiFilter("category", sr.cat))} ELSE {})
        \cup (IF sr.area # "" THEN {MealsOf(ApiFilter("area", sr.area))} ELSE {})

\* The ids that occur in every list of a non-empty set of lists.
CommonIds(ls) == {id \in UNION {IdSet(l) : l \in ls} : \A l \in ls : id \in IdSet(l)}

NoRepeatedId(ms) == \A i, j \in 1..Len(ms) : ms[i].idMeal = ms[j].idMeal => i = j

\* C8: a search with at least one filter, none of whose requests failed,
\* publishes as results a list whose ids are exactly the ids common to all
\* its per-filter lists, and no id twice.
C8_ResultsAreTheIntersection ==
    [][\A s \in Searches :
           /\ JustSettled(s) /\ searches'[s].outcome # "Failed"
           /\ ~EmptyFilterSet(searches'[s])
           => /\ IdSet(results') = CommonIds(FilterLists(searches'[s]))
              /\ NoRepeatedId(results')]_vars

\* C8 witness: ingredient lists {1,2,3} and {2,3,4} gave the results {2,3}.
C8_Witness ==
    /\ searches[1].queryTerm = "chicken, garlic" /\ searches[1].outcome = "Succeeded"
    /\ searches[1].cat = "" /\ searches[1].area = ""
    /\ started = 1
    /\ IdSet(results) = {2, 3} /\ Len(results) = 2

\* How often id occurs in a list of meals.
Occurrences(ms, id) == Cardinality({i \in 1..Len(ms) : ms[i].idMeal = id})

\* C9 (original statement): intersectById of no list is the empty list, of
\* one list is that list, and of two lists L1, L2 holds exactly the ids
\* present in both, each once.
C9_Original ==
    fnRet.done =>
        /\ Len(fnArgs) = 0 => fnRet.value = << >>
        /\ Len(fnArgs) = 1 => fnRet.value = fnArgs[1]
        /\ Len(fnArgs) = 2 =>
               /\ IdSet(fnRet.value) = IdSet(fnArgs[1]) \cap IdSet(fnArgs[2])
               /\ NoRepeatedId(fnRet.value)

\* C9 (amended): intersectById of no list is the empty list, of one list is
\* that list, and of two lists L1, L2 holds exactly the ids present in both,
\* each as many times as it occurs in L1.
C9_IntersectKeepsFirstListOccurrences ==
    fnRet.done =>
        /\ Len(fnArgs) = 0 => fnRet.value = << >>
        /\ Len(fnArgs) = 1 => fnRet.value = fnArgs[1]
        /\ Len(fnArgs) = 2 =>
               /\ IdSet(fnRet.value) = IdSet(fnArgs[1]) \cap IdSet(fnArgs[2])
               /\ \A id \in IdSet(fnRet.value) :
                      Occurrences(fnRet.value, id) = Occurrences(fnArgs[1], id)

\* C9 witness: L1 repeats meal 1 and L2 holds it; the result repeats it.
C9_Witness ==
    /\ fnRet.done
    /\ fnArgs = <<(<<m1, m1>>), (<<m1, m2>>)>>
    /\ fnRet.value = <<m1, m1>>

\* C10: search s2 was invoked while s1 was in flight and is the last one
\* invoked; once both have settled, the results and the error shown are
\* those of s2.
C10_LastSearchWins ==
    \A s1, s2 \in Searches :
        /\ s1 \in searches[s2].during /\ started = s2
        /\ searches[s1].pc = "done" /\ searches[s2].pc = "done"
        => /\ searches[s2].outcome # "Failed" => results = searches[s2].deduped
           /\ searches[s2].outcome = "Succeeded" => error = NoError
           /\ searches[s2].outcome = "EmptyNoSuggestion" => error = NoRecipesMessage
           /\ searches[s2].outcome = "Failed" => error = RetryMessage
           /\ searches[s2].outcome = "EmptyWithSuggestion" =>
                  error = NoError \/ (error.msg = "Did you mean" /\ error.q = searches[s2].queryTerm)

\* C11: when a search starts, the requests for every uncached ingredient
\* term, for the category and for the area are all sent before the search
\* waits on any of them, and the ingredient lists are not intersected while
\* a request of the search is still pending.
C11_AllFetchesIssuedTogether ==
    [][\A s \in Searches :
           /\ JustStarted(s) =>
                  LET sr == searches'[s]
                  IN  /\ \A i \in 1..Len(Terms(sr.queryTerm)) :
                             LET key == LowerText(Terms(sr.queryTerm)[i])
                             IN  ~MapHas(cache.ingredient, key) =>
                                     Call(s, "ingredient", key, i) \in Sent
                      /\ sr.cat # "" /\ ~MapHas(cache.category, sr.cat) =>
                             Call(s, "category", sr.cat, 0) \in Sent
                      /\ sr.area # "" /\ ~MapHas(cache.area, sr.area) =>
                             Call(s, "area", sr.area, 0) \in Sent
           /\ InFlight(s)' /\ Terms(searches'[s].queryTerm) # << >> =>
                  searches'[s].pc = "ingredients"]_vars

\* The keys a Map holds.
KeySet(store) == {store[i].key : i \in 1..Len(store)}

Kinds == {"ingredient", "category", "area"}

\* No entry of the cache is ever removed.
C12_NeverRemoved ==
    \A kind \in Kinds : KeySet(cache[kind]) \subseteq KeySet(cache'[kind])

\* C12 (original statement): an entry of the cache is written once: a
\* response is never stored under a (kind, key) that already has an entry,
\* and no entry is replaced or removed.
C12_Original ==
    [][/\ \A c \in calls : FetchSucceeds(c) => ~MapHas(cache[c.kind], c.key)
       /\ C12_NeverRemoved]_vars

\* C12 (amended): no entry is ever removed; the cache changes only when a
\* request succeeds, and then only in the entry of that request's (kind,
\* key), which is written once for every request that succeeds (twice for
\* "Chicken,chicken"); and a request is sent only for a (kind, key) that has
\* no entry, so once a key is stored no search started later writes it.
C12_StoredOncePerSuccessfulRequest ==
    [][/\ C12_NeverRemoved
       /\ \A c \in Sent : ~MapHas(cache[c.kind], c.key)
       /\ \A c \in calls : FetchSucceeds(c) =>
              /\ MapHas(cache'[c.kind], c.key)
              /\ MapGet(cache'[c.kind], c.key) = MealsOf(ApiFilter(c.kind, c.key))
       /\ cache' # cache =>
              \E c \in calls \ calls' :
                  \A kind \in Kinds : \A k \in KeySet(cache'[kind]) :
                      <<kind, k>> # <<c.kind, c.key>> =>
                          /\ MapHas(cache[kind], k)
                          /\ MapGet(cache'[kind], k) = MapGet(cache[kind], k)]_vars

\* C12 witness: both requests of "Chicken,chicken" have succeeded, so the
\* entry of chicken was written twice, and the entry of garlic, stored by
\* the search before, is still there.
C12_Witness ==
    /\ searches[1].queryTerm = "chicken, garlic" /\ searches[1].outcome = "Succeeded"
    /\ searches[2].queryTerm = "Chicken,chicken" /\ searches[2].outcome = "Succeeded"
    /\ IssuedBy(2, "chicken") = 2
    /\ calls = {}
    /\ KeySet(cache.ingredient) = {"chicken", "garlic"}

\* C17: the timer of a zero-result search never writes its did-you-mean
\* message once a search has been started after that zero-result search
\* settled.
C17_TimerNeverOverwritesLaterSearch ==
    [][\A t \in timers : TimerFires(t) =>
           ~\E s2 \in Searches :
                /\ s2 > t.s /\ searches[s2].pc # "idle"
                /\ t.s \notin searches[s2].during]_vars

\* C18: loading is true whenever a search is in flight.
C18_LoadingWhileInFlight == (\E s \in Searches : InFlight(s)) => loading

Terminal == {"Succeeded", "Failed", "EmptyWithSuggestion", "EmptyNoSuggestion"}

\* C13, per step: a search ends in one of the four terminal states with
\* loading cleared, a failing request of a search in flight is caught (the
\* search ends in Failed), and a search that has ended keeps its state.
C13_Step ==
    \A s \in Searches :
        /\ JustSettled(s) => searches'[s].outcome \in Terminal /\ ~loading'
        /\ searches[s].pc = "done" =>
               /\ searches[s].outcome \in Terminal
               /\ searches'[s].pc = "done" /\ searches'[s].outcome = searches[s].outcome
        /\ \A c \in calls : FetchFails(c) /\ c.s = s /\ InFlight(s) =>
               searches'[s].pc = "done" /\ searches'[s].outcome = "Failed"

\* C13: when every request settles, every search that was started reaches
\* one of Succeeded, Failed, EmptyWithSuggestion, EmptyNoSuggestion, exactly
\* one, and clears loading; no failure of a request escapes handleSearch.
C13_EverySearchTerminates ==
    /\ [][C13_Step]_vars
    /\ \A s \in Searches : (searches[s].pc # "idle") ~> (searches[s].pc = "done")

\* C13 witness: one search failed and one ended with a suggestion; nothing
\* is pending and loading is off.
C13_Witness ==
    /\ searches[1].outcome = "Failed" /\ searches[1].pc = "done"
    /\ searches[2].outcome = "EmptyWithSuggestion" /\ searches[2].pc = "done"
    /\ calls = {} /\ ~loading

\* C14: a failure inside an auxiliary operation (the dropdown load, the
\* first trending load, a trending Refresh) is silent: no rejection leaves
\* the handler, no error message is set, the target list ends up empty, and
\* trendingLoading is false again.
C14_AuxiliaryFailuresAreSilent ==
    [][/\ DropdownsFailed =>
              /\ categories' = << >> /\ areas' = << >>
              /\ error' = error /\ unhandled' = unhandled
       /\ TrendingFailed =>
              /\ trending' = << >> /\ ~trendingLoading'
              /\ error' = error /\ unhandled' = unhandled
       /\ RefreshFailed =>
              /\ trending' = << >> /\ ~trendingLoading'
              /\ error' = error /\ unhandled' = unhandled]_vars

\* t contains q, letter case ignored.
ContainsNoCase(t, q) == Includes(ToLowerCase(t), ToLowerCase(q))

IsZero(sc) == ~sc.inf /\ sc.num = 0

\* C15 (original statement): for every query q and every candidate t that
\* is not empty, the empty and the all-blank q and the all-blank t included,
\* scoreMatch(q, t) is 0 whenever t contains q, letter case ignored.
C15_Original ==
    fnRet.done /\ fnArgs[2] # << >> /\ ContainsNoCase(fnArgs[2], fnArgs[1])
        => IsZero(fnRet.value)

\* C15 (amended): for every query q that is not blank (not empty once
\* trimmed) and every candidate t, scoreMatch(q, t) is 0 whenever t contains
\* q, letter case ignored; when q is blank or t is blank the score is
\* Infinity, whatever t contains.
C15_ContainmentScoresZeroUnlessBlank ==
    fnRet.done =>
        /\ Trim(fnArgs[1]) # << >> /\ ContainsNoCase(fnArgs[2], fnArgs[1])
               => IsZero(fnRet.value)
        /\ Trim(fnArgs[1]) = << >> \/ Trim(fnArgs[2]) = << >> => fnRet.value.inf

\* C15 witness: the candidate " ci" contains the query "C" in the other
\* letter case and scores 0.
C15_Witness ==
    /\ fnRet.done
    /\ fnArgs = <<(<<"C">>), (<<" ", "c", "i">>)>>
    /\ IsZero(fnRet.value)

\* The pool getSuggestions reads for the arguments drawn.
PoolArg ==
    buildSourceList(fnArgs.trending, fnArgs.categories, fnArgs.areas, fnArgs.store)

\* Where name n stands in the pool.
PoolIndex(n) == CHOOSE i \in 1..Len(PoolArg) : PoolArg[i] = n

SameScore(a, b) == ~ScoreLess(a, b) /\ ~ScoreLess(b, a)

\* C16: getSuggestions returns at most 6 strings, each a member of the pool
\* with a finite score, in non-decreasing order of score with equal scores
\* in pool order; no member of the pool that was left out scores strictly
\* lower than a returned one.
C16_SuggestionsAreTheSixBest ==
    fnRet.done =>
        LET r == fnRet.value
            sc(n) == ScoreTable[fnArgs.query, n]
        IN  /\ Len(r) <= 6
            /\ \A i \in 1..Len(r) : r[i] \in Range(PoolArg) /\ ~sc(r[i]).inf
            /\ \A i, j \in 1..Len(r) : i < j =>
                   /\ ~ScoreLess(sc(r[j]), sc(r[i]))
                   /\ SameScore(sc(r[i]), sc(r[j])) => PoolIndex(r[i]) < PoolIndex(r[j])
            /\ \A n \in Range(PoolArg) \ Range(r) :
                   \A i \in 1..Len(r) : ~ScoreLess(sc(n), sc(r[i]))

\* C16 witness: for "Chicken" the two trending names that contain it come
\* first, in pool order, and six strings are returned out of a larger pool.
C16_Witness ==
    /\ fnRet.done
    /\ fnArgs.query = "Chicken" /\ fnArgs.trending = <<m2, m1, Nameless>>
    /\ Len(PoolArg) > 6
    /\ Len(fnRet.value) = 6
    /\ fnRet.value[1] = "chicken" /\ fnRet.value[2] = "chicken curry"

====
